---- MODULE Spec2Model ----
(***************************************************************************)
(* Buckle: the hierarchical label algebra of src/src/buckle.               *)
(*                                                                         *)
(* A principal is a token; a chain (Vec<Principal>) is a sequence of       *)
(* tokens; a Clause is a set of chains (BTreeSet<Vec<Principal>>); a       *)
(* Component is DCFalse or DCFormula(set of clauses); a Buckle label is a  *)
(* pair of components.  Tokens are modelled by naturals, whose order       *)
(* stands for the order of Strings.                                        *)
(***************************************************************************)
EXTENDS Naturals, Sequences, FiniteSets

VARIABLES k1, k2,      \* Clause operands
          x, y,        \* Component operands
          a, b, c,     \* Buckle operands
          p,           \* privilege (a Component)
          op,          \* the operation applied last ("none" before any)
          rb,          \* boolean result of the last operation
          rc,          \* Component result of the last operation
          rl           \* Buckle result of the last operation

vars == <<k1, k2, x, y, a, b, c, p, op, rb, rc, rl>>

----------------------------------------------------------------------------
(* Bounds of the input universe.  The chains are a root chain, a          *)
(* principal, a delegate of that principal and an unrelated principal.     *)
(* A specification draws its operands up to a total weight: a clause       *)
(* weighs one more than its number of chains, a formula the sum of its     *)
(* clauses, DCFalse and the constant true nothing.                         *)

Chains == {<<>>, <<1>>, <<1, 2>>, <<2>>}

MaxCompWeight == 8

MaxLabelWeight == 6

MaxLatticeWeight == 7

\* a session builds each operand up to MaxSessionInput and keeps its label
\* up to MaxSessionWeight
MaxSessionInput == 2

MaxSessionWeight == 5

\* two labels and a privilege
MaxPrivilegeWeight == 6

\* three labels
MaxTransitiveWeight == 6

\* the largest weight any specification draws
WeightLimit ==
    LET ws == {MaxCompWeight, MaxLabelWeight, MaxLatticeWeight,
               MaxSessionInput, MaxSessionWeight, MaxPrivilegeWeight,
               MaxTransitiveWeight}
    IN  CHOOSE m \in ws : \A n \in ws : n <= m

----------------------------------------------------------------------------
(* Principal chains and their order.                                       *)

Min(m, n) == IF m <= n THEN m ELSE n

\* slice::starts_with: svec is a (proper or equal) prefix of ovec
\* a chain no longer starts with itself
\* the test in the other direction: svec.starts_with(ovec)
starts_with_reversed(ovec, svec) ==
    /\ Len(ovec) <= Len(svec)
    /\ SubSeq(svec, 1, Len(ovec)) = ovec

starts_with_proper(ovec, svec) ==
    /\ Len(svec) < Len(ovec)
    /\ SubSeq(ovec, 1, Len(svec)) = svec

starts_with(ovec, svec) ==
    /\ Len(svec) <= Len(ovec)
    /\ \A i \in 1..Len(svec) : ovec[i] = svec[i]

\* Ord for Vec<Principal>: lexicographic, a proper prefix is smaller
chain_lt(s, t) ==
    \/ \E i \in 1..Min(Len(s), Len(t)) :
          /\ \A j \in 1..(i - 1) : s[j] = t[j]
          /\ s[i] < t[i]
    \/ /\ Len(s) < Len(t)
       /\ \A j \in 1..Len(s) : s[j] = t[j]

\* the smallest chain of a non-empty clause (first element of the BTreeSet)
first_chain(cl) == CHOOSE s \in cl : \A t \in cl : t = s \/ chain_lt(s, t)

RECURSIVE clause_iter(_)
\* BTreeSet<Vec<Principal>>::iter: the chains in ascending order
clause_iter(cl) ==
    IF cl = {} THEN <<>>
    ELSE <<first_chain(cl)>> \o clause_iter(cl \ {first_chain(cl)})

\* derived Ord for Clause: lexicographic comparison of the two iterations
clause_lt(cl, dl) ==
    LET s == clause_iter(cl)
        t == clause_iter(dl)
    IN  \/ \E i \in 1..Min(Len(s), Len(t)) :
              /\ \A j \in 1..(i - 1) : s[j] = t[j]
              /\ chain_lt(s[i], t[i])
        \/ /\ Len(s) < Len(t)
           /\ \A j \in 1..Len(s) : s[j] = t[j]

----------------------------------------------------------------------------
(* Clause                                                                  *)

\* the former body of Clause::implies (DCLabel's): a literal subset test
\* the second early return gives true: every clause implies the empty one
clause_implies_empty_other(self, other) ==
    IF self = {} THEN TRUE
    ELSE IF other = {} THEN TRUE
    ELSE \A svec \in self : \E ovec \in other : starts_with(ovec, svec)

clause_implies_subset(self, other) == self \subseteq other

clause_implies(self, other) ==
    IF self = {} THEN TRUE
    ELSE IF other = {} THEN FALSE
    ELSE \A svec \in self : \E ovec \in other : starts_with(ovec, svec)

----------------------------------------------------------------------------
(* Component                                                               *)

DCFalse == [tag |-> "DCFalse", clauses |-> {}]

DCFormula(cls) == [tag |-> "DCFormula", clauses |-> cls]

dc_false == DCFalse

dc_true == DCFormula({})

is_true(self) == IF self.tag = "DCFalse" THEN FALSE ELSE self.clauses = {}

\* the first two arms of the match in the other order
component_implies_false_last(self, other) ==
    IF other.tag = "DCFalse" THEN FALSE
    ELSE IF self.tag = "DCFalse" THEN TRUE
    ELSE IF is_true(other) THEN TRUE
    ELSE IF is_true(self) THEN FALSE
    ELSE \A oclause \in other.clauses :
            \E sclause \in self.clauses : clause_implies(sclause, oclause)

component_implies(self, other) ==
    IF self.tag = "DCFalse" THEN TRUE
    ELSE IF other.tag = "DCFalse" THEN FALSE
    ELSE IF is_true(other) THEN TRUE
    ELSE IF is_true(self) THEN FALSE
    ELSE \A oclause \in other.clauses :
            \E sclause \in self.clauses : clause_implies(sclause, oclause)

\* reduce() without its else-if branch: only the later clause of a pair is
\* ever collected
\* both clauses of a pair go when either implies the other
rmlist_both(clauses) ==
    {cl \in clauses :
        \E dl \in clauses \ {cl} : clause_implies(dl, cl) \/ clause_implies(cl, dl)}

rmlist_later_only(clauses) ==
    {cl \in clauses :
        \E clausef \in clauses :
           /\ clause_lt(clausef, cl)
           /\ clause_implies(clausef, cl)}

\* reduce() collecting the implying clause of a pair instead of the implied
rmlist_implying(clauses) ==
    {cl \in clauses :
        \/ \E clauser \in clauses :
              /\ clause_lt(cl, clauser)
              /\ clause_implies(cl, clauser)
        \/ \E clausef \in clauses :
              /\ clause_lt(clausef, cl)
              /\ ~clause_implies(clausef, cl)
              /\ clause_implies(cl, clausef)}

\* reduce() comparing only neighbours in the iteration (skip(i + 1).take(1))
rmlist_neighbours(clauses) ==
    LET next_to(cl, dl) ==
            /\ clause_lt(cl, dl)
            /\ ~\E el \in clauses : clause_lt(cl, el) /\ clause_lt(el, dl)
    IN  {cl \in clauses :
            \/ \E clausef \in clauses :
                  /\ next_to(clausef, cl)
                  /\ clause_implies(clausef, cl)
            \/ \E clauser \in clauses :
                  /\ next_to(cl, clauser)
                  /\ ~clause_implies(cl, clauser)
                  /\ clause_implies(clauser, cl)}

\* the clauses reduce() collects for removal: every pair (clausef, clauser)
\* with clausef before clauser in the iteration of the BTreeSet<Clause>
rmlist(clauses) ==
    {cl \in clauses :
        \/ \E clausef \in clauses :
              /\ clause_lt(clausef, cl)
              /\ clause_implies(clausef, cl)
        \/ \E clauser \in clauses :
              /\ clause_lt(cl, clauser)
              /\ ~clause_implies(cl, clauser)
              /\ clause_implies(clauser, cl)}

component_reduce(self) ==
    IF self.tag = "DCFalse" THEN self
    ELSE DCFormula(self.clauses \ rmlist(self.clauses))

\* the clauses the two operands share instead of the clauses of both
\* the orders clauses.iter() can enumerate a clause set in, one per order of
\* Clause
Enumerations(clauses) ==
    {order \in [1..Cardinality(clauses) -> clauses] :
        \A i, j \in 1..Cardinality(clauses) : i # j => order[i] # order[j]}

\* the rmlist of the two loops of reduce() over an enumeration
rmlist_in(order) ==
    {order[j] : j \in {r \in DOMAIN order :
                        \E f \in 1..(r - 1) : clause_implies(order[f], order[r])}}
    \cup
    {order[i] : i \in {f \in DOMAIN order :
                        \E r \in (f + 1)..Len(order) :
                            /\ ~clause_implies(order[f], order[r])
                            /\ clause_implies(order[r], order[f])}}

\* reduce() over an enumeration of the clauses
reduce_in(self, order) ==
    IF self.tag = "DCFalse" THEN self
    ELSE DCFormula(self.clauses \ rmlist_in(order))

bitand_intersect(self, rhs) ==
    IF self.tag = "DCFalse" THEN DCFalse
    ELSE IF rhs.tag = "DCFalse" THEN DCFalse
    ELSE DCFormula(self.clauses \cap rhs.clauses)

bitand(self, rhs) ==
    IF self.tag = "DCFalse" THEN DCFalse
    ELSE IF rhs.tag = "DCFalse" THEN DCFalse
    ELSE DCFormula(self.clauses \cup rhs.clauses)

\* the inner loop appends every clause of o to the clone of one clause of s,
\* and the clone is inserted once, after the inner loop
\* DCFalse absorbs, as it does in &
bitor_false_absorbs(self, rhs) ==
    IF rhs.tag = "DCFalse" THEN DCFalse
    ELSE IF self.tag = "DCFalse" THEN DCFalse
    ELSE IF self.clauses = {} \/ rhs.clauses = {} THEN dc_true
    ELSE DCFormula({clauses \cup UNION rhs.clauses : clauses \in self.clauses})

bitor(self, rhs) ==
    IF rhs.tag = "DCFalse" THEN self
    ELSE IF self.tag = "DCFalse" THEN rhs
    ELSE IF self.clauses = {} \/ rhs.clauses = {} THEN dc_true
    ELSE DCFormula({clauses \cup UNION rhs.clauses : clauses \in self.clauses})

----------------------------------------------------------------------------
(* Buckle                                                                  *)

Buckle(secrecy, integrity) == [secrecy |-> secrecy, integrity |-> integrity]

buckle_new(secrecy, integrity) ==
    Buckle(component_reduce(secrecy), component_reduce(integrity))

public == buckle_new(dc_true, dc_true)

\* top with the arguments of bottom
top_as_bottom == buckle_new(dc_true, dc_false)

top == buckle_new(dc_false, dc_true)

bottom == buckle_new(dc_true, dc_false)

buckle_reduce(self) ==
    Buckle(component_reduce(self.secrecy), component_reduce(self.integrity))

\* endorse through downgrade, which also rewrites the secrecy
endorse_as_downgrade(self, privilege) ==
    Buckle(IF privilege.tag = "DCFalse" THEN dc_true
           ELSE IF self.secrecy.tag = "DCFalse" THEN dc_false
           ELSE DCFormula({cl \in self.secrecy.clauses :
                    ~\E pclause \in privilege.clauses : clause_implies(pclause, cl)}),
           bitand(privilege, self.integrity))

endorse(self, privilege) ==
    Buckle(self.secrecy, bitand(privilege, self.integrity))

lub(self, rhs) ==
    buckle_reduce(Buckle(bitand(self.secrecy, rhs.secrecy),
                         bitor(self.integrity, rhs.integrity)))

glb(self, rhs) ==
    buckle_reduce(Buckle(bitor(self.secrecy, rhs.secrecy),
                         bitand(self.integrity, rhs.integrity)))

\* can_flow_to with the secrecy test in the direction of the integrity test
can_flow_to_same_direction(self, rhs) ==
    /\ component_implies(self.secrecy, rhs.secrecy)
    /\ component_implies(self.integrity, rhs.integrity)

\* can_flow_to with || between the two tests
can_flow_to_either(self, rhs) ==
    \/ component_implies(rhs.secrecy, self.secrecy)
    \/ component_implies(self.integrity, rhs.integrity)

can_flow_to(self, rhs) ==
    /\ component_implies(rhs.secrecy, self.secrecy)
    /\ component_implies(self.integrity, rhs.integrity)

\* the retain test in the other direction: c.implies(pclause)
\* the integrity is left as it is
downgrade_keep_integrity(self, privilege) ==
    Buckle(IF privilege.tag = "DCFalse" THEN dc_true
           ELSE IF self.secrecy.tag = "DCFalse" THEN dc_false
           ELSE DCFormula({cl \in self.secrecy.clauses :
                    ~\E pclause \in privilege.clauses : clause_implies(pclause, cl)}),
           self.integrity)

\* every privilege downgrades the secrecy to the constant true
downgrade_drops_secrecy(self, privilege) ==
    Buckle(dc_true, bitand(privilege, self.integrity))

downgrade_implying(self, privilege) ==
    Buckle(IF privilege.tag = "DCFalse" THEN dc_true
           ELSE IF self.secrecy.tag = "DCFalse" THEN dc_false
           ELSE DCFormula({cl \in self.secrecy.clauses :
                    ~\E pclause \in privilege.clauses : clause_implies(cl, pclause)}),
           bitand(privilege, self.integrity))

\* the first two arms of the match in the other order
downgrade_false_first(self, privilege) ==
    Buckle(IF self.secrecy.tag = "DCFalse" THEN dc_false
           ELSE IF privilege.tag = "DCFalse" THEN dc_true
           ELSE DCFormula({cl \in self.secrecy.clauses :
                    ~\E pclause \in privilege.clauses : clause_implies(pclause, cl)}),
           bitand(privilege, self.integrity))

downgrade(self, privilege) ==
    Buckle(IF privilege.tag = "DCFalse" THEN dc_true
           ELSE IF self.secrecy.tag = "DCFalse" THEN dc_false
           ELSE DCFormula({cl \in self.secrecy.clauses :
                    ~\E pclause \in privilege.clauses : clause_implies(pclause, cl)}),
           bitand(privilege, self.integrity))

\* the privilege is used on the secrecy side only
\* the privilege is joined with | instead of &
can_flow_to_with_privilege_or(self, rhs, privilege) ==
    /\ component_implies(bitor(rhs.secrecy, privilege), self.secrecy)
    /\ component_implies(bitor(self.integrity, privilege), rhs.integrity)

can_flow_to_with_privilege_secrecy_only(self, rhs, privilege) ==
    /\ component_implies(bitand(rhs.secrecy, privilege), self.secrecy)
    /\ component_implies(self.integrity, rhs.integrity)

\* the privilege is not used
can_flow_to_without_privilege(self, rhs, privilege) ==
    /\ component_implies(rhs.secrecy, self.secrecy)
    /\ component_implies(self.integrity, rhs.integrity)

can_flow_to_with_privilege(self, rhs, privilege) ==
    /\ component_implies(bitand(rhs.secrecy, privilege), self.secrecy)
    /\ component_implies(bitand(self.integrity, privilege), rhs.integrity)

\* a refused downgrade_to downgrades as far as the privilege allows
downgrade_to_best_effort(self, target, privilege) ==
    IF can_flow_to_with_privilege(self, target, privilege) THEN target
    ELSE downgrade(self, privilege)

downgrade_to(self, target, privilege) ==
    IF can_flow_to_with_privilege(self, target, privilege) THEN target ELSE self

----------------------------------------------------------------------------
(* The input universe.                                                     *)

Clauses == SUBSET Chains

\* the clauses with exactly n chains
ClausesOfSize(n) == {cl \in Clauses : Cardinality(cl) = n}

\* the clause sets of weight exactly w, given the table t of those of weights
\* 0..(w - 1): one clause of n chains added to a clause set of weight w - 1 - n
FormulasOfWeight(t, w) ==
    UNION {UNION {{f \cup {cl} : f \in {g \in t[w - n] : cl \notin g}}
                  : cl \in ClausesOfSize(n)}
           : n \in 0..(w - 1)}

RECURSIVE FormulasUpTo(_)
\* <<the clause sets of weight 0, ..., the clause sets of weight w>>
FormulasUpTo(w) ==
    IF w = 0 THEN <<{{}}>>
    ELSE LET t == FormulasUpTo(w - 1) IN Append(t, FormulasOfWeight(t, w))

FormulaTable == FormulasUpTo(WeightLimit)

RECURSIVE Tabulate(_, _)
\* <<F(0), ..., F(w)>>
Tabulate(F(_), w) ==
    IF w = 0 THEN <<F(0)>> ELSE Append(Tabulate(F, w - 1), F(w))

\* the union of the first n entries of a table
UpTo(t, n) == UNION {t[i] : i \in 1..n}

Reduced(comp) == component_reduce(comp) = comp

ReducedLabel(l) == Reduced(l.secrecy) /\ Reduced(l.integrity)

\* the components of weight exactly w (entry w + 1 of the table)
CompsOfWeight(w) ==
    {DCFormula(f) : f \in FormulaTable[w + 1]} \cup (IF w = 0 THEN {DCFalse} ELSE {})

CompTable == Tabulate(CompsOfWeight, WeightLimit)

\* the labels of weight exactly w
LabelsOfWeight(w) ==
    UNION {{Buckle(s, i) : s \in CompTable[v + 1], i \in CompTable[w - v + 1]}
           : v \in 0..w}

LabelTable == Tabulate(LabelsOfWeight, WeightLimit)

\* the labels in reduced form of weight exactly w
ReducedLabelsOfWeight(w) == {l \in LabelTable[w + 1] : ReducedLabel(l)}

ReducedLabelTable == Tabulate(ReducedLabelsOfWeight, WeightLimit)

NoClause == {}

NoComp == dc_true

NoLabel == Buckle(dc_true, dc_true)

----------------------------------------------------------------------------
(* Clause level: two clauses, and the operations of Clause on them.        *)

InitClause ==
    /\ k1 \in Clauses /\ k2 \in Clauses
    /\ x = NoComp /\ y = NoComp
    /\ a = NoLabel /\ b = NoLabel /\ c = NoLabel
    /\ p = NoComp
    /\ op = "none" /\ rb = FALSE /\ rc = NoComp /\ rl = NoLabel

\* k1.implies(&k2)
ClauseImplies ==
    /\ op' = "clause_implies"
    /\ rb' = clause_implies(k1, k2)
    /\ rc' = NoComp /\ rl' = NoLabel
    /\ UNCHANGED <<k1, k2, x, y, a, b, c, p>>

\* quickcheck subset_implies_superset:
\* clause1.0.append(&mut clause2.0.clone()); clause2.implies(&clause1)
SubsetImpliesSuperset ==
    /\ op' = "subset_implies_superset"
    /\ rb' = clause_implies(k2, k1 \cup k2)
    /\ rc' = NoComp /\ rl' = NoLabel
    /\ UNCHANGED <<k1, k2, x, y, a, b, c, p>>

NextClause == ClauseImplies \/ SubsetImpliesSuperset

SpecClause == InitClause /\ [][NextClause]_vars

----------------------------------------------------------------------------
(* Component level: two components, and the operations of Component.       *)

InitComp ==
    /\ k1 = NoClause /\ k2 = NoClause
    /\ \E w \in 0..MaxCompWeight :
          /\ x \in CompTable[w + 1]
          /\ y \in UpTo(CompTable, MaxCompWeight - w + 1)
    /\ a = NoLabel /\ b = NoLabel /\ c = NoLabel
    /\ p = NoComp
    /\ op = "none" /\ rb = FALSE /\ rc = NoComp /\ rl = NoLabel

\* x.implies(&y)
Implies ==
    /\ op' = "implies"
    /\ rb' = component_implies(x, y)
    /\ rc' = NoComp /\ rl' = NoLabel
    /\ UNCHANGED <<k1, k2, x, y, a, b, c, p>>

\* x.reduce(): in place; rc keeps the component as it was before
Reduce ==
    /\ op' = "reduce"
    /\ x' = component_reduce(x)
    /\ rc' = x
    /\ rb' = FALSE /\ rl' = NoLabel
    /\ UNCHANGED <<k1, k2, y, a, b, c, p>>

\* x & y
BitAnd ==
    /\ op' = "bitand"
    /\ rc' = bitand(x, y)
    /\ rb' = FALSE /\ rl' = NoLabel
    /\ UNCHANGED <<k1, k2, x, y, a, b, c, p>>

\* x | y
BitOr ==
    /\ op' = "bitor"
    /\ rc' = bitor(x, y)
    /\ rb' = FALSE /\ rl' = NoLabel
    /\ UNCHANGED <<k1, k2, x, y, a, b, c, p>>

\* quickcheck superset_implies_subset:
\* let component1 = component1 & component2.clone(); component1.implies(&component2)
SupersetImpliesSubset ==
    /\ op' = "superset_implies_subset"
    /\ rc' = bitand(x, y)
    /\ rb' = component_implies(bitand(x, y), y)
    /\ rl' = NoLabel
    /\ UNCHANGED <<k1, k2, x, y, a, b, c, p>>

NextComp == Implies \/ Reduce \/ BitAnd \/ BitOr \/ SupersetImpliesSubset

SpecComp == InitComp /\ [][NextComp]_vars

----------------------------------------------------------------------------
(* Label level: two labels, and the operations of the Label trait.         *)

InitLabel ==
    /\ k1 = NoClause /\ k2 = NoClause
    /\ x = NoComp /\ y = NoComp
    /\ \E w \in 0..MaxLabelWeight :
          /\ a \in LabelTable[w + 1]
          /\ b \in UpTo(LabelTable, MaxLabelWeight - w + 1)
    /\ c = NoLabel
    /\ p = NoComp
    /\ op = "none" /\ rb = FALSE /\ rc = NoComp /\ rl = NoLabel

\* a.can_flow_to(&b)
CanFlowTo ==
    /\ op' = "can_flow_to"
    /\ rb' = can_flow_to(a, b)
    /\ rc' = NoComp /\ rl' = NoLabel
    /\ UNCHANGED <<k1, k2, x, y, a, b, c, p>>

\* a.lub(b)
Lub ==
    /\ op' = "lub"
    /\ rl' = lub(a, b)
    /\ rb' = FALSE /\ rc' = NoComp
    /\ UNCHANGED <<k1, k2, x, y, a, b, c, p>>

\* a.glb(b)
Glb ==
    /\ op' = "glb"
    /\ rl' = glb(a, b)
    /\ rb' = FALSE /\ rc' = NoComp
    /\ UNCHANGED <<k1, k2, x, y, a, b, c, p>>

\* quickcheck everything_can_flow_to_top: a.can_flow_to(&Buckle::top())
EverythingCanFlowToTop ==
    /\ op' = "everything_can_flow_to_top"
    /\ rb' = can_flow_to(a, top)
    /\ rc' = NoComp /\ rl' = NoLabel
    /\ UNCHANGED <<k1, k2, x, y, a, b, c, p>>

\* quickcheck bottom_can_flow_to_everything: Buckle::bottom().can_flow_to(&a)
BottomCanFlowToEverything ==
    /\ op' = "bottom_can_flow_to_everything"
    /\ rb' = can_flow_to(bottom, a)
    /\ rc' = NoComp /\ rl' = NoLabel
    /\ UNCHANGED <<k1, k2, x, y, a, b, c, p>>

\* test_extreme_can_flow_to: Buckle::top().can_flow_to(&a)
TopCanFlowTo ==
    /\ op' = "top_can_flow_to"
    /\ rb' = can_flow_to(top, a)
    /\ rc' = NoComp /\ rl' = NoLabel
    /\ UNCHANGED <<k1, k2, x, y, a, b, c, p>>

\* test_extreme_can_flow_to: a.can_flow_to(&Buckle::bottom())
CanFlowToBottom ==
    /\ op' = "can_flow_to_bottom"
    /\ rb' = can_flow_to(a, bottom)
    /\ rc' = NoComp /\ rl' = NoLabel
    /\ UNCHANGED <<k1, k2, x, y, a, b, c, p>>

NextLabel ==
    \/ CanFlowTo
    \/ Lub
    \/ Glb
    \/ EverythingCanFlowToTop
    \/ BottomCanFlowToEverything
    \/ TopCanFlowTo
    \/ CanFlowToBottom

SpecLabel == InitLabel /\ [][NextLabel]_vars

----------------------------------------------------------------------------
(* Lattice level: three labels in reduced form (built by Buckle::new), the *)
(* join of the first two and its comparison with the third.                *)

InitLattice ==
    /\ k1 = NoClause /\ k2 = NoClause
    /\ x = NoComp /\ y = NoComp
    /\ \E w \in 0..MaxLatticeWeight :
          /\ a \in ReducedLabelTable[w + 1]
          /\ \E v \in 0..(MaxLatticeWeight - w) :
                /\ b \in ReducedLabelTable[v + 1]
                /\ c \in UpTo(ReducedLabelTable, MaxLatticeWeight - w - v + 1)
    /\ p = NoComp
    /\ op = "none" /\ rb = FALSE /\ rc = NoComp /\ rl = NoLabel

\* a.lub(b).can_flow_to(&c)
LubCanFlowTo ==
    /\ op' = "lub_can_flow_to"
    /\ rl' = lub(a, b)
    /\ rb' = can_flow_to(lub(a, b), c)
    /\ rc' = NoComp
    /\ UNCHANGED <<k1, k2, x, y, a, b, c, p>>

NextLattice == LubCanFlowTo

SpecLattice == InitLattice /\ [][NextLattice]_vars

----------------------------------------------------------------------------
(* Session level: one label, built by Buckle::new, and any sequence of the *)
(* public operations on it.  The other operand of an operation is built by *)
(* Buckle::new, a privilege is a component in reduced form; p keeps the    *)
(* privilege of the last operation.                                        *)

\* the labels Buckle::new builds from the components of small weight
NewLabels ==
    {buckle_new(l.secrecy, l.integrity) : l \in UpTo(LabelTable, MaxSessionInput + 1)}

Privileges == {pv \in UpTo(CompTable, MaxSessionInput + 1) : Reduced(pv)}

SessionLabels == UpTo(LabelTable, MaxSessionWeight + 1)

InitSession ==
    /\ k1 = NoClause /\ k2 = NoClause
    /\ x = NoComp /\ y = NoComp
    /\ a \in NewLabels
    /\ b = NoLabel /\ c = NoLabel
    /\ p = NoComp
    /\ op = "new" /\ rb = FALSE /\ rc = NoComp /\ rl = NoLabel

\* a = Buckle::new(secrecy, integrity)
SessionNew ==
    /\ op' = "new"
    /\ a' \in NewLabels
    /\ b' = NoLabel /\ p' = NoComp
    /\ UNCHANGED <<k1, k2, x, y, c, rb, rc, rl>>

\* a = Buckle::public()
SessionPublic ==
    /\ op' = "public"
    /\ a' = public
    /\ b' = NoLabel /\ p' = NoComp
    /\ UNCHANGED <<k1, k2, x, y, c, rb, rc, rl>>

\* a = Buckle::top()
SessionTop ==
    /\ op' = "top"
    /\ a' = top
    /\ b' = NoLabel /\ p' = NoComp
    /\ UNCHANGED <<k1, k2, x, y, c, rb, rc, rl>>

\* a = Buckle::bottom()
SessionBottom ==
    /\ op' = "bottom"
    /\ a' = bottom
    /\ b' = NoLabel /\ p' = NoComp
    /\ UNCHANGED <<k1, k2, x, y, c, rb, rc, rl>>

\* a = a.lub(b)
SessionLub ==
    /\ op' = "lub"
    /\ \E rhs \in NewLabels :
          /\ lub(a, rhs) \in SessionLabels
          /\ a' = lub(a, rhs)
    /\ b' = NoLabel /\ p' = NoComp
    /\ UNCHANGED <<k1, k2, x, y, c, rb, rc, rl>>

\* a = a.glb(b)
SessionGlb ==
    /\ op' = "glb"
    /\ \E rhs \in NewLabels :
          /\ glb(a, rhs) \in SessionLabels
          /\ a' = glb(a, rhs)
    /\ b' = NoLabel /\ p' = NoComp
    /\ UNCHANGED <<k1, k2, x, y, c, rb, rc, rl>>

\* a = a.endorse(&p)
SessionEndorse ==
    /\ op' = "endorse"
    /\ \E privilege \in Privileges :
          /\ endorse(a, privilege) \in SessionLabels
          /\ a' = endorse(a, privilege)
          /\ p' = privilege
    /\ b' = NoLabel
    /\ UNCHANGED <<k1, k2, x, y, c, rb, rc, rl>>

\* a = a.downgrade(&p)
SessionDowngrade ==
    /\ op' = "downgrade"
    /\ \E privilege \in Privileges :
          /\ downgrade(a, privilege) \in SessionLabels
          /\ a' = downgrade(a, privilege)
          /\ p' = privilege
    /\ b' = NoLabel
    /\ UNCHANGED <<k1, k2, x, y, c, rb, rc, rl>>

\* a = a.downgrade_to(b, &p)
SessionDowngradeTo ==
    /\ op' = "downgrade_to"
    /\ \E target \in NewLabels, privilege \in Privileges :
          /\ a' = downgrade_to(a, target, privilege)
          /\ p' = privilege
    /\ b' = NoLabel
    /\ UNCHANGED <<k1, k2, x, y, c, rb, rc, rl>>

NextSession ==
    \/ SessionNew
    \/ SessionPublic
    \/ SessionTop
    \/ SessionBottom
    \/ SessionLub
    \/ SessionGlb
    \/ SessionEndorse
    \/ SessionDowngrade
    \/ SessionDowngradeTo

SpecSession == InitSession /\ [][NextSession]_vars

----------------------------------------------------------------------------
(* Privilege level: two labels and a privilege, and the operations of the  *)
(* HasPrivilege trait and endorse.                                         *)

InitPrivilege ==
    /\ k1 = NoClause /\ k2 = NoClause
    /\ x = NoComp /\ y = NoComp
    /\ \E w \in 0..MaxPrivilegeWeight :
          /\ a \in LabelTable[w + 1]
          /\ \E v \in 0..(MaxPrivilegeWeight - w) :
                /\ b \in LabelTable[v + 1]
                /\ p \in UpTo(CompTable, MaxPrivilegeWeight - w - v + 1)
    /\ c = NoLabel
    /\ op = "none" /\ rb = FALSE /\ rc = NoComp /\ rl = NoLabel

\* a.can_flow_to_with_privilege(&b, &p)
CanFlowToWithPrivilege ==
    /\ op' = "can_flow_to_with_privilege"
    /\ rb' = can_flow_to_with_privilege(a, b, p)
    /\ rc' = NoComp /\ rl' = NoLabel
    /\ UNCHANGED <<k1, k2, x, y, a, b, c, p>>

\* a.downgrade(&p)
Downgrade ==
    /\ op' = "downgrade"
    /\ rl' = downgrade(a, p)
    /\ rb' = FALSE /\ rc' = NoComp
    /\ UNCHANGED <<k1, k2, x, y, a, b, c, p>>

\* a.downgrade_to(b, &p)
DowngradeTo ==
    /\ op' = "downgrade_to"
    /\ rl' = downgrade_to(a, b, p)
    /\ rb' = FALSE /\ rc' = NoComp
    /\ UNCHANGED <<k1, k2, x, y, a, b, c, p>>

\* a.endorse(&p)
Endorse ==
    /\ op' = "endorse"
    /\ rl' = endorse(a, p)
    /\ rb' = FALSE /\ rc' = NoComp
    /\ UNCHANGED <<k1, k2, x, y, a, b, c, p>>

\* quickcheck endorse_equiv_downgrade_to:
\* let target = Buckle { secrecy: lbl.secrecy.clone(),
\*                       integrity: lbl.integrity.clone() & privilege.clone() };
\* lbl.clone().downgrade_to(target, &privilege) == lbl.endorse(&privilege)
EndorseEquivDowngradeTo ==
    /\ op' = "endorse_equiv_downgrade_to"
    /\ LET target == Buckle(a.secrecy, bitand(a.integrity, p))
       IN  /\ rl' = downgrade_to(a, target, p)
           /\ rb' = (downgrade_to(a, target, p) = endorse(a, p))
    /\ rc' = NoComp
    /\ UNCHANGED <<k1, k2, x, y, a, b, c, p>>

\* a.downgrade(&p).can_flow_to(&b)
DowngradeCanFlowTo ==
    /\ op' = "downgrade_can_flow_to"
    /\ rl' = downgrade(a, p)
    /\ rb' = can_flow_to(downgrade(a, p), b)
    /\ rc' = NoComp
    /\ UNCHANGED <<k1, k2, x, y, a, b, c, p>>

\* a.downgrade_to(a.downgrade(&p), &p)
DowngradeToDowngrade ==
    /\ op' = "downgrade_to_downgrade"
    /\ rl' = downgrade_to(a, downgrade(a, p), p)
    /\ rb' = can_flow_to_with_privilege(a, downgrade(a, p), p)
    /\ rc' = NoComp
    /\ UNCHANGED <<k1, k2, x, y, a, b, c, p>>

NextPrivilege ==
    \/ CanFlowToWithPrivilege
    \/ Downgrade
    \/ DowngradeTo
    \/ Endorse
    \/ EndorseEquivDowngradeTo
    \/ DowngradeCanFlowTo
    \/ DowngradeToDowngrade

SpecPrivilege == InitPrivilege /\ [][NextPrivilege]_vars

----------------------------------------------------------------------------
(* Order level: two labels in reduced form (built by Buckle::new) compared *)
(* in both directions.                                                     *)

InitOrder ==
    /\ k1 = NoClause /\ k2 = NoClause
    /\ x = NoComp /\ y = NoComp
    /\ \E w \in 0..MaxLabelWeight :
          /\ a \in ReducedLabelTable[w + 1]
          /\ b \in UpTo(ReducedLabelTable, MaxLabelWeight - w + 1)
    /\ c = NoLabel
    /\ p = NoComp
    /\ op = "none" /\ rb = FALSE /\ rc = NoComp /\ rl = NoLabel

\* a.can_flow_to(&b) && b.can_flow_to(&a)
MutualCanFlowTo ==
    /\ op' = "mutual_can_flow_to"
    /\ rb' = (can_flow_to(a, b) /\ can_flow_to(b, a))
    /\ rc' = NoComp /\ rl' = NoLabel /\ c' = NoLabel
    /\ UNCHANGED <<k1, k2, x, y, a, b, p>>

\* a == b (the derived PartialEq of Buckle)
LabelEq ==
    /\ op' = "eq"
    /\ rb' = (a = b)
    /\ rc' = NoComp /\ rl' = NoLabel /\ c' = NoLabel
    /\ UNCHANGED <<k1, k2, x, y, a, b, p>>

\* test_lub: extreme.lub(a) and a.lub(extreme), the extreme being top or
\* bottom; c keeps the extreme
LubExtreme ==
    /\ \E extreme \in {top, bottom} :
          /\ c' = extreme
          /\ \/ op' = "extreme_lub" /\ rl' = lub(extreme, a)
             \/ op' = "lub_extreme" /\ rl' = lub(a, extreme)
    /\ rb' = FALSE /\ rc' = NoComp
    /\ UNCHANGED <<k1, k2, x, y, a, b, p>>

\* test_glb: extreme.glb(a) and a.glb(extreme)
GlbExtreme ==
    /\ \E extreme \in {top, bottom} :
          /\ c' = extreme
          /\ \/ op' = "extreme_glb" /\ rl' = glb(extreme, a)
             \/ op' = "glb_extreme" /\ rl' = glb(a, extreme)
    /\ rb' = FALSE /\ rc' = NoComp
    /\ UNCHANGED <<k1, k2, x, y, a, b, p>>

\* a.lub(b) and b.lub(a); c keeps the second
LubBothWays ==
    /\ op' = "lub_both_ways"
    /\ rl' = lub(a, b)
    /\ c' = lub(b, a)
    /\ rb' = FALSE /\ rc' = NoComp
    /\ UNCHANGED <<k1, k2, x, y, a, b, p>>

\* a.glb(b) and b.glb(a); c keeps the second
GlbBothWays ==
    /\ op' = "glb_both_ways"
    /\ rl' = glb(a, b)
    /\ c' = glb(b, a)
    /\ rb' = FALSE /\ rc' = NoComp
    /\ UNCHANGED <<k1, k2, x, y, a, b, p>>

\* a.clone().lub(a)
LubSelf ==
    /\ op' = "lub_self"
    /\ rl' = lub(a, a)
    /\ rb' = FALSE /\ rc' = NoComp /\ c' = NoLabel
    /\ UNCHANGED <<k1, k2, x, y, a, b, p>>

\* a.clone().glb(a)
GlbSelf ==
    /\ op' = "glb_self"
    /\ rl' = glb(a, a)
    /\ rb' = FALSE /\ rc' = NoComp /\ c' = NoLabel
    /\ UNCHANGED <<k1, k2, x, y, a, b, p>>

NextOrder ==
    \/ MutualCanFlowTo
    \/ LabelEq
    \/ LubExtreme
    \/ GlbExtreme
    \/ LubBothWays
    \/ GlbBothWays
    \/ LubSelf
    \/ GlbSelf

SpecOrder == InitOrder /\ [][NextOrder]_vars

----------------------------------------------------------------------------
(* Enumeration level: one component, reduced over any enumeration of its   *)
(* clauses.                                                                *)

InitEnumerate ==
    /\ k1 = NoClause /\ k2 = NoClause
    /\ x \in UpTo(CompTable, MaxCompWeight + 1)
    /\ y = NoComp
    /\ a = NoLabel /\ b = NoLabel /\ c = NoLabel
    /\ p = NoComp
    /\ op = "none" /\ rb = FALSE /\ rc = NoComp /\ rl = NoLabel

\* rc = x.clone(); rc.reduce(), the clauses enumerated in some order
ReduceEnumerated ==
    /\ op' = "reduce_enumerated"
    /\ \E order \in Enumerations(x.clauses) : rc' = reduce_in(x, order)
    /\ rb' = FALSE /\ rl' = NoLabel
    /\ UNCHANGED <<k1, k2, x, y, a, b, c, p>>

NextEnumerate == ReduceEnumerated

SpecEnumerate == InitEnumerate /\ [][NextEnumerate]_vars

----------------------------------------------------------------------------
(* Three labels of any components, and the flow from the first to the      *)
(* third through the second.                                               *)

InitTransitive ==
    /\ k1 = NoClause /\ k2 = NoClause
    /\ x = NoComp /\ y = NoComp
    /\ \E w \in 0..MaxTransitiveWeight :
          /\ a \in LabelTable[w + 1]
          /\ \E v \in 0..(MaxTransitiveWeight - w) :
                /\ b \in LabelTable[v + 1]
                /\ c \in UpTo(LabelTable, MaxTransitiveWeight - w - v + 1)
    /\ p = NoComp
    /\ op = "none" /\ rb = FALSE /\ rc = NoComp /\ rl = NoLabel

\* a.can_flow_to(&b) && b.can_flow_to(&c)
CanFlowThrough ==
    /\ op' = "can_flow_through"
    /\ rb' = (can_flow_to(a, b) /\ can_flow_to(b, c))
    /\ rc' = NoComp /\ rl' = NoLabel
    /\ UNCHANGED <<k1, k2, x, y, a, b, c, p>>

\* a.can_flow_to(&c)
CanFlowToThird ==
    /\ op' = "can_flow_to_third"
    /\ rb' = can_flow_to(a, c)
    /\ rc' = NoComp /\ rl' = NoLabel
    /\ UNCHANGED <<k1, k2, x, y, a, b, c, p>>

NextTransitive == CanFlowThrough \/ CanFlowToThird

SpecTransitive == InitTransitive /\ [][NextTransitive]_vars

----------------------------------------------------------------------------
(* One value compared with itself: a clause, a component or a label.       *)

InitReflexive ==
    /\ \/ /\ k1 \in Clauses
          /\ x = NoComp /\ a = NoLabel
          /\ op = "clause"
       \/ /\ k1 = NoClause
          /\ x \in UpTo(CompTable, MaxCompWeight + 1)
          /\ a = NoLabel
          /\ op = "component"
       \/ /\ k1 = NoClause /\ x = NoComp
          /\ a \in UpTo(LabelTable, MaxLabelWeight + 1)
          /\ op = "label"
    /\ k2 = NoClause /\ y = NoComp
    /\ b = NoLabel /\ c = NoLabel
    /\ p = NoComp
    /\ rb = FALSE /\ rc = NoComp /\ rl = NoLabel

\* test_x_implies_x: k1.implies(&k1)
ClauseImpliesSelf ==
    /\ op \in {"clause", "clause_implies_self"}
    /\ op' = "clause_implies_self"
    /\ rb' = clause_implies(k1, k1)
    /\ UNCHANGED <<k1, k2, x, y, a, b, c, p, rc, rl>>

\* quickcheck x_implies_x:
\* let other = component.clone(); component.implies(&other) && other.implies(&component)
XImpliesX ==
    /\ op \in {"component", "x_implies_x"}
    /\ op' = "x_implies_x"
    /\ LET other == x
       IN  rb' = (component_implies(x, other) /\ component_implies(other, x))
    /\ UNCHANGED <<k1, k2, x, y, a, b, c, p, rc, rl>>

\* a.can_flow_to(&a)
CanFlowToSelf ==
    /\ op \in {"label", "can_flow_to_self"}
    /\ op' = "can_flow_to_self"
    /\ rb' = can_flow_to(a, a)
    /\ UNCHANGED <<k1, k2, x, y, a, b, c, p, rc, rl>>

NextReflexive == ClauseImpliesSelf \/ XImpliesX \/ CanFlowToSelf

SpecReflexive == InitReflexive /\ [][NextReflexive]_vars

----------------------------------------------------------------------------
(* The rules the properties below compare the operations with.             *)

\* chain s is a proper or equal prefix of chain o
IsPrefix(s, o) == Len(s) <= Len(o) /\ SubSeq(o, 1, Len(s)) = s

\* every chain of self has an extension in other
PrefixRule(self, other) == \A s \in self : \E o \in other : IsPrefix(s, o)

\* the rule of Component.implies, in its stated order
ImpliesRule(self, other) ==
    IF self = DCFalse THEN TRUE
    ELSE IF other = DCFalse THEN FALSE
    ELSE IF other.clauses = {} THEN TRUE
    ELSE IF self.clauses = {} THEN FALSE
    ELSE \A oc \in other.clauses : \E sc \in self.clauses : PrefixRule(sc, oc)

\* no two distinct clauses of the set are comparable under Clause.implies
Antichain(clauses) ==
    \A cl \in clauses : \A dl \in clauses \ {cl} : ~clause_implies(cl, dl)

\* the conjunction: False if either operand is False, otherwise the clauses
\* of both
AndRule(s, o) ==
    IF s = DCFalse \/ o = DCFalse THEN DCFalse
    ELSE DCFormula(s.clauses \cup o.clauses)

\* the rule of can_flow_to_with_privilege
FlowWithPrivilegeRule(l, m, pv) ==
    /\ ImpliesRule(AndRule(m.secrecy, pv), l.secrecy)
    /\ ImpliesRule(AndRule(l.integrity, pv), m.integrity)

\* the secrecy downgrade produces
DowngradeSecrecyRule(l, pv) ==
    IF pv = DCFalse THEN DCFormula({})
    ELSE IF l.secrecy = DCFalse THEN DCFalse
    ELSE DCFormula(l.secrecy.clauses \
                   {cl \in l.secrecy.clauses : \E pc \in pv.clauses : PrefixRule(pc, cl)})

\* one clause per pair of clauses, the union of the two
\* the truth assignments: the sets of held chains, closed under extension
Assignments ==
    {h \in SUBSET Chains : \A s \in h : \A o \in Chains : IsPrefix(s, o) => o \in h}

\* a clause is satisfied when one of its chains is held, a formula when all
\* its clauses are, DCFalse never
Satisfies(h, comp) ==
    /\ comp # DCFalse
    /\ \A cl \in comp.clauses : cl \cap h # {}

Distribute(s, o) == {cs \cup co : cs \in s.clauses, co \in o.clauses}

----------------------------------------------------------------------------
(* Properties.                                                             *)

\* C1: a.can_flow_to(b) is true exactly when b.secrecy implies a.secrecy and
\* a.integrity implies b.integrity; nothing but the two labels decides it.
C1_CanFlowToRule ==
    op = "can_flow_to" =>
        rb = (ImpliesRule(b.secrecy, a.secrecy) /\ ImpliesRule(a.integrity, b.integrity))

\* an allowed flow to a label of a different secrecy, decided by clauses of
\* principals in both secrecies and in the integrity of the source
C1_Witness ==
    /\ op = "can_flow_to" /\ rb
    /\ a.secrecy # b.secrecy
    /\ \E cl \in a.secrecy.clauses : cl # {}
    /\ \E cl \in b.secrecy.clauses : cl # {}
    /\ \E cl \in a.integrity.clauses : cl # {}

\* C2: both labels can flow to their lub, and their glb can flow to both,
\* whatever the components (reduced or not, DCFalse, constant true).
C2_JoinMeetSound ==
    /\ op = "lub" => can_flow_to(a, rl) /\ can_flow_to(b, rl)
    /\ op = "glb" => can_flow_to(rl, a) /\ can_flow_to(rl, b)

\* a lub whose integrity is the disjunction of a clause of principals of a
\* with two clauses of principals of b
C2_Witness ==
    /\ op = "lub"
    /\ \E cl \in a.integrity.clauses : cl # {}
    /\ Cardinality(b.integrity.clauses) >= 2
    /\ \A cl \in b.integrity.clauses : cl # {}
    /\ can_flow_to(a, rl) /\ can_flow_to(b, rl)

\* C3: bottom = (true, DCFalse) can flow to every label and every label can
\* flow to top = (DCFalse, true).
C3_TopBottom ==
    /\ bottom = Buckle(DCFormula({}), DCFalse)
    /\ top = Buckle(DCFalse, DCFormula({}))
    /\ op = "bottom_can_flow_to_everything" => rb
    /\ op = "everything_can_flow_to_top" => rb

\* a label with clauses in both components, neither top nor bottom, flows to top
C3_Witness ==
    /\ op = "everything_can_flow_to_top" /\ rb
    /\ \E cl \in a.secrecy.clauses : cl # {}
    /\ \E cl \in a.integrity.clauses : cl # {}

\* C4: lub is the least upper bound: for labels a, b, c in reduced form, if a
\* and b can both flow to c, then a.lub(b) can flow to c.
C4_LubIsLeast ==
    op = "lub_can_flow_to" /\ can_flow_to(a, c) /\ can_flow_to(b, c) => rb

\* C5: for two formulas with at least one clause each, a | b is exactly the
\* set of the unions ca \cup cb, one per pair of a clause of a and one of b.
C5_BitOrDistributes ==
    op = "bitor" /\ x.tag = "DCFormula" /\ y.tag = "DCFormula"
                 /\ x.clauses # {} /\ y.clauses # {}
        => rc = DCFormula(Distribute(x, y))

\* C6: every label obtained by a sequence of the public operations, from
\* labels built by Buckle::new and reduced privileges, has both components
\* in reduced form.
C6_AlwaysReduced ==
    /\ a.secrecy.tag = "DCFormula" => Antichain(a.secrecy.clauses)
    /\ a.integrity.tag = "DCFormula" => Antichain(a.integrity.clauses)

\* C7: after reduce() the clauses of a formula are an antichain under
\* Clause.implies, and reduce() leaves DCFalse unchanged (rc is the component
\* before the call).
C7_ReduceAntichain ==
    op = "reduce" =>
        /\ x.tag = rc.tag
        /\ x.tag = "DCFormula" => Antichain(x.clauses)
        /\ rc = DCFalse => x = DCFalse

\* a reduce() that removed a clause and left at least two
C7_Witness ==
    /\ op = "reduce"
    /\ x # rc
    /\ Cardinality(x.clauses) >= 2

\* C8: reduce is idempotent: a reduce() that follows a reduce() removes no
\* clause.
C8_ReduceIdempotent ==
    [][op = "reduce" /\ op' = "reduce" => x' = x]_vars

\* a reduce() that found nothing to remove in a formula of several clauses
C8_Witness ==
    /\ op = "reduce"
    /\ x = rc
    /\ Cardinality(x.clauses) >= 2

\* C9: Clause.implies is the prefix rule; the empty clause implies every
\* clause, no other clause implies the empty one, and c2 implies c1 \cup c2.
C9_ClauseImpliesRule ==
    /\ op = "clause_implies" =>
          /\ rb = PrefixRule(k1, k2)
          /\ k1 = {} => rb
          /\ k1 # {} /\ k2 = {} => ~rb
    /\ op = "subset_implies_superset" => rb

\* the relation is not symmetric: a principal implies its delegate or another
\* principal, and not the other way round
C9_Witness ==
    /\ op = "clause_implies" /\ rb
    /\ k1 = {<<1>>}
    /\ k2 = {<<1, 2>>, <<2>>}
    /\ ~clause_implies(k2, k1)

\* C10: Component.implies is the rule in its stated order; DCFalse implies
\* every component and only DCFalse implies DCFalse.
C10_ComponentImpliesRule ==
    op = "implies" =>
        /\ rb = ImpliesRule(x, y)
        /\ x = DCFalse => rb
        /\ y = DCFalse /\ rb => x = DCFalse

\* an implication between two formulas of two clauses each, decided by the
\* last arm
C10_Witness ==
    /\ op = "implies" /\ rb
    /\ x # y
    /\ Cardinality(x.clauses) >= 2
    /\ Cardinality(y.clauses) >= 2
    /\ \A cl \in x.clauses \cup y.clauses : cl # {}

\* C11: implies is reflexive on clauses (the empty one included) and on
\* components (DCFalse, constant true, any formula), and every label can flow
\* to itself.
C11_Reflexive ==
    op \in {"clause_implies_self", "x_implies_x", "can_flow_to_self"} => rb

\* a formula that is not in reduced form implies itself
C11_Witness ==
    /\ op = "x_implies_x" /\ rb
    /\ x.tag = "DCFormula"
    /\ Cardinality(x.clauses) >= 2
    /\ ~Antichain(x.clauses)
    /\ \A cl \in x.clauses : cl # {}

\* C19: c1 & c2 is False if either operand is False and otherwise the formula
\* of the clauses of both, and it implies c2 for all components c1 and c2.
C19_AndImpliesOperand ==
    op = "superset_implies_subset" => rb /\ rc = AndRule(x, y)

\* c1 alone does not imply c2, and the conjunction has clauses of both
C19_Witness ==
    /\ op = "superset_implies_subset" /\ rb
    /\ x.tag = "DCFormula" /\ y.tag = "DCFormula"
    /\ ~component_implies(x, y)
    /\ x.clauses \ y.clauses # {} /\ y.clauses \ x.clauses # {}
    /\ \A cl \in x.clauses \cup y.clauses : cl # {}

\* C20: top can flow to no label but top and no label but bottom can flow to
\* bottom; so top flows neither to public nor to bottom, and public does not
\* flow to bottom.
C20_ExtremesStrict ==
    /\ op = "top_can_flow_to" =>
          /\ rb => a = Buckle(DCFalse, DCFormula({}))
          /\ a \in {public, bottom} => ~rb
    /\ op = "can_flow_to_bottom" =>
          /\ rb => a = Buckle(DCFormula({}), DCFalse)
          /\ a = public => ~rb

\* top is refused by a label of secrecy DCFalse because of its integrity
C20_Witness ==
    /\ op = "top_can_flow_to" /\ ~rb
    /\ a.secrecy = DCFalse
    /\ \E cl \in a.integrity.clauses : cl # {}

\* C12: a.can_flow_to_with_privilege(b, p) is true exactly when b.secrecy & p
\* implies a.secrecy and a.integrity & p implies b.integrity; with no DCFalse
\* among a.secrecy, b.secrecy and p, a clause of a.secrecy that no clause of
\* b.secrecy and no clause of p implies denies the flow.
C12_FlowWithPrivilegeRule ==
    op = "can_flow_to_with_privilege" =>
        /\ rb = FlowWithPrivilegeRule(a, b, p)
        /\ (/\ a.secrecy # DCFalse /\ b.secrecy # DCFalse /\ p # DCFalse
            /\ \E cl \in a.secrecy.clauses :
                  \A d \in b.secrecy.clauses \cup p.clauses : ~PrefixRule(d, cl))
           => ~rb

\* a flow the privilege allows and the plain can_flow_to refuses, on both the
\* secrecy and the integrity side
C12_Witness ==
    /\ op = "can_flow_to_with_privilege" /\ rb
    /\ ~component_implies(b.secrecy, a.secrecy)
    /\ ~component_implies(a.integrity, b.integrity)
    /\ p.tag = "DCFormula"
    /\ a.secrecy.tag = "DCFormula" /\ b.integrity.tag = "DCFormula"

\* C13: downgrade(label, p) gives secrecy = constant true when p is DCFalse
\* (also when label.secrecy is DCFalse), otherwise DCFalse when label.secrecy
\* is DCFalse, otherwise label.secrecy without exactly the clauses that some
\* clause of p implies; and integrity = p & label.integrity in every case.
C13_DowngradeRule ==
    op = "downgrade" =>
        /\ rl.secrecy = DowngradeSecrecyRule(a, p)
        /\ rl.integrity = AndRule(p, a.integrity)
        /\ p = DCFalse => rl.secrecy = DCFormula({})
        /\ p # DCFalse /\ a.secrecy = DCFalse => rl.secrecy = DCFalse

\* a downgrade that removes a clause the privilege implies without holding
\* it, and keeps another clause
C13_Witness ==
    /\ op = "downgrade"
    /\ p.tag = "DCFormula" /\ a.secrecy.tag = "DCFormula"
    /\ rl.secrecy.clauses # {}
    /\ \E cl \in a.secrecy.clauses \ rl.secrecy.clauses : cl \notin p.clauses
    /\ \A cl \in a.secrecy.clauses \cup p.clauses : cl # {}

\* C14: for a label l built by Buckle::new, l.downgrade(constant true) = l
\* and l.downgrade(DCFalse) = bottom, also when l.secrecy is DCFalse.
C14_DowngradeExtremes ==
    op = "downgrade" /\ ReducedLabel(a) =>
        /\ p = DCFormula({}) => rl = a
        /\ p = DCFalse => rl = Buckle(DCFormula({}), DCFalse)

\* a label of secrecy DCFalse and an integrity of principals, downgraded to
\* bottom by the privilege DCFalse
C14_Witness ==
    /\ op = "downgrade" /\ ReducedLabel(a)
    /\ p = DCFalse
    /\ a.secrecy = DCFalse
    /\ \E cl \in a.integrity.clauses : cl # {}
    /\ rl = bottom

\* C15: downgrade_to(a, target, p) returns target when
\* a.can_flow_to_with_privilege(target, p) and a otherwise, never a third label.
C15_DowngradeToRule ==
    op = "downgrade_to" =>
        /\ rl = IF FlowWithPrivilegeRule(a, b, p) THEN b ELSE a
        /\ rl \in {a, b}

\* a refused downgrade_to, with a privilege of principals that would have
\* downgraded the label: the label comes back as it was
C15_Witness ==
    /\ op = "downgrade_to"
    /\ rl = a /\ a # b
    /\ \E cl \in p.clauses : cl # {}
    /\ downgrade(a, p) # a

\* C16: for every label l and privilege p,
\* l.downgrade_to((l.secrecy, l.integrity & p), p) = l.endorse(p).
C16_EndorseEquivDowngradeTo ==
    op = "endorse_equiv_downgrade_to" =>
        rb /\ rl = Buckle(a.secrecy, AndRule(a.integrity, p))

\* the privilege adds a clause of principals to an integrity of principals,
\* and the result is not in reduced form
C16_Witness ==
    /\ op = "endorse_equiv_downgrade_to" /\ rb
    /\ rl # a
    /\ \E cl \in a.integrity.clauses : cl # {}
    /\ \E cl \in p.clauses : cl # {}
    /\ ~ReducedLabel(rl)

\* C17: endorse(label, p) leaves the secrecy as it is and gives integrity =
\* p & label.integrity: DCFalse if either is DCFalse, otherwise the clauses
\* of both.
C17_EndorseFrame ==
    op = "endorse" =>
        /\ rl.secrecy = a.secrecy
        /\ rl.integrity = AndRule(p, a.integrity)

\* an endorse with a privilege that implies a clause of the secrecy: the
\* secrecy is kept, the integrity gains a clause
C17_Witness ==
    /\ op = "endorse"
    /\ p.tag = "DCFormula" /\ a.secrecy.tag = "DCFormula"
    /\ \E cl \in a.secrecy.clauses : \E pc \in p.clauses : clause_implies(pc, cl)
    /\ rl.integrity # a.integrity
    /\ rl.secrecy = a.secrecy

\* C18: can_flow_to is antisymmetric on labels built by Buckle::new: two
\* labels that can flow to each other are equal.
C18_Antisymmetric ==
    op = "mutual_can_flow_to" /\ rb => a = b

\* C21: Component.implies is sound for entailment: when x.implies(y) is true,
\* every assignment of held chains (closed under extension) that satisfies x
\* satisfies y.
C21_ImpliesSound ==
    op = "implies" /\ rb => \A h \in Assignments : Satisfies(h, x) => Satisfies(h, y)

\* an implication that holds through a delegation: a clause of x implies a
\* clause of y that is not one of x, and some assignment satisfies x
C21_Witness ==
    /\ op = "implies" /\ rb
    /\ x.tag = "DCFormula" /\ y.tag = "DCFormula"
    /\ \E cl \in y.clauses : cl # {} /\ cl \notin x.clauses
    /\ \E h \in Assignments : Satisfies(h, x) /\ h # Chains

\* C22: reduce() only removes clauses, each removed clause is implied by a
\* clause that remains, a formula with a clause keeps one, and the component
\* before and the component after imply each other (rc is the component
\* before the call).
C22_ReducePreserves ==
    op = "reduce" =>
        /\ x.tag = rc.tag
        /\ x.clauses \subseteq rc.clauses
        /\ \A cl \in rc.clauses \ x.clauses : \E dl \in x.clauses : PrefixRule(dl, cl)
        /\ rc.clauses # {} => x.clauses # {}
        /\ ImpliesRule(rc, x) /\ ImpliesRule(x, rc)

\* a reduce() that removed two clauses that imply each other's survivor
C22_Witness ==
    /\ op = "reduce"
    /\ Cardinality(rc.clauses \ x.clauses) >= 2
    /\ x.clauses # {}
    /\ \A cl \in rc.clauses : cl # {}

C24_CheckAgreesWithDowngrade ==
    op = "downgrade_can_flow_to" => rb = can_flow_to_with_privilege(a, b, p)

\* a flow the plain can_flow_to refuses and both the downgraded label and
\* the privileged check allow, the privilege removing a clause of principals
\* that it implies without holding it
C24_Witness ==
    /\ op = "downgrade_can_flow_to" /\ rb
    /\ ~can_flow_to(a, b)
    /\ p.tag = "DCFormula" /\ a.secrecy.tag = "DCFormula"
    /\ \E cl \in a.secrecy.clauses \ rl.secrecy.clauses : cl # {} /\ cl \notin p.clauses
    /\ \A pc \in p.clauses : pc # {}

\* C29: a privilege never revokes a flow, and the constant true grants none:
\* a.can_flow_to(b) implies a.can_flow_to_with_privilege(b, p) for every p,
\* and a.can_flow_to_with_privilege(b, true) = a.can_flow_to(b).
C29_PrivilegeMonotone ==
    op = "can_flow_to_with_privilege" =>
        /\ can_flow_to(a, b) => rb
        /\ p = DCFormula({}) => rb = can_flow_to(a, b)

\* an allowed flow between two different labels stays allowed under a
\* privilege of principals that implies no clause of either
C29_Witness ==
    /\ op = "can_flow_to_with_privilege" /\ rb
    /\ can_flow_to(a, b) /\ a # b
    /\ \E cl \in b.secrecy.clauses : cl # {}
    /\ p.tag = "DCFormula" /\ p.clauses # {}
    /\ \A pc \in p.clauses : pc # {}

\* C30: the privilege that produced a downgrade authorizes it: for every
\* label l and privilege p, l.can_flow_to_with_privilege(l.downgrade(p), p),
\* so l.downgrade_to(l.downgrade(p), p) = l.downgrade(p).
C30_DowngradeAuthorized ==
    op = "downgrade_to_downgrade" => rb /\ rl = downgrade(a, p)

\* a downgrade that changed both components and is not a plain flow
C30_Witness ==
    /\ op = "downgrade_to_downgrade" /\ rb
    /\ rl.secrecy # a.secrecy /\ rl.integrity # a.integrity
    /\ ~can_flow_to(a, rl)
    /\ p.tag = "DCFormula" /\ a.secrecy.tag = "DCFormula"

\* C25: for a label x in reduced form, bottom.lub(x) = x.lub(bottom) = x and
\* top.lub(x) = x.lub(top) = top; top.glb(x) = x.glb(top) = x and
\* bottom.glb(x) = x.glb(bottom) = bottom.
C25_IdentityAbsorbing ==
    /\ op \in {"extreme_lub", "lub_extreme"} =>
          /\ c = Buckle(DCFormula({}), DCFalse) => rl = a
          /\ c = Buckle(DCFalse, DCFormula({})) => rl = c
    /\ op \in {"extreme_glb", "glb_extreme"} =>
          /\ c = Buckle(DCFalse, DCFormula({})) => rl = a
          /\ c = Buckle(DCFormula({}), DCFalse) => rl = c

\* the lub of a label of two formulas of principals with bottom on its right
C25_Witness ==
    /\ op = "lub_extreme" /\ c = bottom
    /\ rl = a
    /\ \E cl \in a.secrecy.clauses : cl # {}
    /\ Cardinality(a.integrity.clauses) >= 2

\* C27: lub and glb are commutative on labels in reduced form:
\* a.lub(b) = b.lub(a) and a.glb(b) = b.glb(a).
C27_Commutative ==
    op \in {"lub_both_ways", "glb_both_ways"} => rl = c

\* C28: lub and glb are idempotent on labels built by Buckle::new:
\* a.lub(a) = a and a.glb(a) = a.
C28_Idempotent ==
    op \in {"lub_self", "glb_self"} => rl = a

\* C26: can_flow_to is transitive on labels of any components: if a can flow
\* to b and b to c, then a can flow to c (and so are the two implies it is
\* made of, through DCFalse, the constant true and the empty clause).
C26_Transitive ==
    /\ op = "can_flow_through" /\ rb => can_flow_to(a, c)
    /\ op = "can_flow_to_third" /\ ~rb => ~(can_flow_to(a, b) /\ can_flow_to(b, c))

\* a flow through three different integrities of principals
C26_Witness ==
    /\ op = "can_flow_through" /\ rb
    /\ a.integrity # b.integrity /\ b.integrity # c.integrity /\ a.integrity # c.integrity
    /\ \A l \in {a, b, c} :
          /\ l.integrity.tag = "DCFormula"
          /\ \E cl \in l.integrity.clauses : cl # {}

====
